---- MODULE Spec2Model ----
(***************************************************************************)
(* Model of client/main.ts: the escrow/logger client driver.               *)
(*                                                                         *)
(* The script is one async function, main, run to completion or to its     *)
(* first rejected promise; persistent state is three key files on disk     *)
(* and the ledger behind the RPC connection.  A behaviour of the model is  *)
(* a sequence of runs of the script against the same disk and ledger.      *)
(*                                                                         *)
(* Conventions                                                             *)
(*  - pc is the line of main that is executing, at the line of the         *)
(*    statement inside the helper main is in (at = pc in main itself);     *)
(*    pc = 0 means the process is not running, pc = 216 the catch handler. *)
(*  - 64-bit unsigned values, BigInts and JS Numbers holding integers are  *)
(*    sets of bit positions: n is the set of i with bit i of n set.  This  *)
(*    keeps the full 64-bit width and the 53-bit significand of a double.  *)
(*  - balances are counted in units of 10^6 lamports, so that 4 SOL fits   *)
(*    a 32-bit integer; LAMPORTS_PER_SOL is 1000 of these units.           *)
(***************************************************************************)
EXTENDS Integers, Sequences, FiniteSets, TLC

\* ------------------------------------------------------------------ bounds

\* Number of times the script is run against the same disk and ledger.
MaxRuns == 2

\* ------------------------------------------------------- program constants

ESCROW_PROGRAM_ID == "6rCwx3QNv8sBL2iiHwrDq7GvEj4wWZTEJY8VN1n6682R"
LOGGER_PROGRAM_ID == "HFroz2wV8jgypuLEggSmZWTsxnnLNewjkfNX42UnFjyv"
LOGGER_STATE_FILE == "logger_state.json"
USER1_FILE == "wallet1.json"
USER2_FILE == "wallet2.json"
FileNames == {USER1_FILE, USER2_FILE, LOGGER_STATE_FILE}

\* web3.js LAMPORTS_PER_SOL, in units of 10^6 lamports.
LAMPORTS_PER_SOL == 1000
\* Size of the logger-state account (const space = 8).
space == 8
\* Amounts of the two instructions.
depositAmount == 50
withdrawAmount == 30
\* Significand width of a JS Number (IEEE-754 double), used by Number(bigint).
SignificandBits == 53
\* Width of the value written by writeBigUInt64LE / read by readBigUInt64LE.
U64Bits == 64

\* ------------------------------------------------------ bytes and integers

Max(S) == CHOOSE x \in S : \A y \in S : y <= x
Bit(b, i) == (b \div (2 ^ i)) % 2

\* The bit positions set in a small natural number (amounts, byte values).
BitsOfNat(n) == {i \in 0..30 : Bit(n, i) = 1}

\* Exact integer successor on bit sets.
Inc(S) ==
    LET k == CHOOSE j \in 0..(Cardinality(S)) : j \notin S /\ \A i \in 0..(j - 1) : i \in S
    IN  (S \ (0..(k - 1))) \cup {k}

\* Successor of the part of S at or above position e (carry into bit e).
IncAt(S, e) ==
    LET k == CHOOSE j \in e..(e + Cardinality(S)) :
                 j \notin S /\ \A i \in e..(j - 1) : i \in S
    IN  (S \ (e..(k - 1))) \cup {k}

\* Round an exact non-negative integer to the nearest double, ties to even.
RoundToDouble(S) ==
    IF S = {} \/ Max(S) < SignificandBits THEN S
    ELSE LET e      == Max(S) - (SignificandBits - 1)
             kept   == {i \in S : i >= e}
             half   == (e - 1) \in S
             sticky == \E i \in S : i < e - 1
         IN  IF half /\ (sticky \/ e \in S) THEN IncAt(kept, e) ELSE kept

\* Buffer.readBigUInt64LE(off): the 8 bytes from data[off+1], byte 0 lowest.
readBigUInt64LE(data, off) ==
    {8 * (q[1] - 1) + q[2] :
        q \in {r \in (1..8) \X (0..7) : Bit(data[off + r[1]], r[2]) = 1}}

\* Number(bigint): the nearest double.
Number(big) == RoundToDouble(big)

\* number + 1 in double arithmetic: the exact sum, rounded.
Plus1(num) == RoundToDouble(Inc(num))

\* BigInt(number) of an integer-valued Number: the same integer, exactly.
BigInt(num) == num

ByteAt(S, j) ==
    LET w(i) == IF (8 * j + i) \in S THEN 2 ^ i ELSE 0
    IN  w(0) + w(1) + w(2) + w(3) + w(4) + w(5) + w(6) + w(7)

\* Buffer.writeUInt8(value, off) on buffer buf.
writeUInt8(buf, value, off) == [buf EXCEPT ![off + 1] = value % 256]

\* Buffer.writeBigUInt64LE(value, off): throws a RangeError unless
\* 0 <= value < 2^64; otherwise stores the 8 bytes, lowest first.
InU64Range(big) == \A i \in big : i < U64Bits
writeBigUInt64LE(buf, big, off) ==
    [j \in DOMAIN buf |->
        IF j > off /\ j <= off + 8 THEN ByteAt(big, j - off - 1) ELSE buf[j]]

\* Buffer.alloc(n): n zero bytes.
BufferAlloc(n) == [j \in 1..n |-> 0]

\* Buffer.from(ascii string) for the three seed strings.
SeedEscrow == <<101, 115, 99, 114, 111, 119>>
SeedVault == <<118, 97, 117, 108, 116>>
SeedLogger == <<108, 111, 103, 103, 101, 114>>

\* ------------------------------------------------------------- addresses

\* A keypair is represented by its secret key, a byte array.  An address is a
\* record: a wallet or mint public key (t = "key", a = <<its bytes>>), a
\* program id (t = "program"), or a derived address (t = "pda").
NoKey == <<>>
NoAddr == [t |-> "none", a |-> <<>>, p |-> ""]
ProgramAddr(id) == [t |-> "program", a |-> <<>>, p |-> id]
SystemProgramId == ProgramAddr("11111111111111111111111111111111")
TOKEN_PROGRAM_ID == ProgramAddr("TokenkegQfeZyiNwAJbNbGKPFXCWuBvf9Ss623VQ5DA")
SYSVAR_RENT_PUBKEY == ProgramAddr("SysvarRent111111111111111111111111111111111")

\* keypair.publicKey: determined by the secret key.
publicKey(kp) == [t |-> "key", a |-> <<kp>>, p |-> ""]
\* PublicKey.toBuffer(): the bytes of the key.
toBuffer(pk) == pk.a[1]

\* PublicKey.findProgramAddress(seeds, programId): a deterministic,
\* collision-free function of the seed bytes and the program id.
findProgramAddress(seeds, programId) == [t |-> "pda", a |-> seeds, p |-> programId]

\* The associated token account getOrCreateAssociatedTokenAccount returns.
AssociatedTokenAccount(mint, owner) ==
    [t |-> "ata", a |-> <<toBuffer(mint), toBuffer(owner)>>, p |-> ""]

\* Array.from(secretKey) / Uint8Array.from(array): the file holds the JSON
\* array of the key's bytes; reading it back coerces each element to a byte.
ArrayFrom(secretKey) == secretKey
Uint8ArrayFrom(arr) == [i \in DOMAIN arr |-> arr[i] % 256]
KeypairFromSecretKey(secretKey) == secretKey

\* Keys already on disk before the first run of the model.
PreKey(f) ==
    IF f = USER1_FILE THEN <<201>> ELSE IF f = USER2_FILE THEN <<202>> ELSE <<203>>
KeySpace == {<<k>> : k \in 0..255}
\* The mint keypairs createMint may generate.
Mints == {publicKey(<<101>>), publicKey(<<102>>)}

\* Balances a wallet found on disk may have, and counters a logger-state
\* account found on chain may hold: small values, values around 2^53 and
\* the largest 64-bit value.
InitBalances == {0, 2 * LAMPORTS_PER_SOL - 1, 2 * LAMPORTS_PER_SOL}
InitCounters == (SUBSET {0, 1, SignificandBits}) \cup {0..(SignificandBits - 1), 0..(U64Bits - 1)}
InitLoggerData ==
    {writeBigUInt64LE(BufferAlloc(8), c, 0) : c \in InitCounters} \cup {BufferAlloc(4)}

\* ------------------------------------------------------------------- state

VARIABLES
    files,      \* disk: file name -> JSON array of bytes (absent = not in DOMAIN)
    balances,   \* ledger: address -> balance (absent = 0)
    accounts,   \* ledger: address -> [owner, data] of program-owned accounts
    nextKey,    \* source of Keypair.generate()
    run,        \* number of runs of the script started so far
    pc,         \* line of main being executed (0: not running, 216: catch)
    at,         \* line of the statement being executed (inside helpers)
    waiting,    \* main is suspended on an await of a network call
    inflight,   \* network calls issued and not yet settled
    m,          \* the local variables of main and of the helper it is in
    trace,      \* this run's events: calls issued, settled, thrown; steps
    errLogged,  \* this run's console.error calls of the catch handler
    seqSeen,    \* this run: on-chain counter found by each getLoggerSequence
    hist        \* across runs: file calls, writes, returned keys, etc.

vars == <<files, balances, accounts, nextKey, run, pc, at, waiting, inflight,
          m, trace, errLogged, seqSeen, hist>>

EmptyFrame ==
    [user1 |-> NoKey, user2 |-> NoKey, loggerStateKP |-> NoKey, kp |-> NoKey,
     balance |-> 0, lamports |-> 0, mint |-> NoAddr,
     accountInfo |-> [exists |-> FALSE, data |-> <<>>],
     user1TokenAcc |-> NoAddr, user2TokenAcc |-> NoAddr,
     escrowDataPda |-> NoAddr, vaultPda |-> NoAddr,
     depositData |-> <<>>, seqBefore |-> {}, messagePda |-> NoAddr,
     depositIx |-> <<>>, withdrawData |-> <<>>, withdrawSeq |-> {},
     withdrawMessagePda |-> NoAddr, withdrawIx |-> <<>>]

EmptyHist ==
    [calls    |-> [f \in FileNames |-> 0],
     wroteAt  |-> [f \in FileNames |-> {}],
     returned |-> [f \in FileNames |-> {}],
     overwrote |-> {},
     created  |-> {},
     derived  |-> 0,
     pdas     |-> {}]

Init ==
    /\ \E D \in SUBSET FileNames :
         /\ files = [f \in D |-> ArrayFrom(PreKey(f))]
         /\ \E b1 \in InitBalances, b2 \in InitBalances :
              balances = [a \in {publicKey(PreKey(f)) : f \in D \ {LOGGER_STATE_FILE}} |->
                            IF a = publicKey(PreKey(USER1_FILE)) THEN b1 ELSE b2]
         /\ \/ accounts = <<>>
            \/ /\ LOGGER_STATE_FILE \in D
               /\ \E d \in InitLoggerData :
                    accounts = [a \in {publicKey(PreKey(LOGGER_STATE_FILE))} |->
                                  [owner |-> LOGGER_PROGRAM_ID, data |-> d]]
    /\ nextKey = 1
    /\ run = 0
    /\ pc = 0
    /\ at = 0
    /\ waiting = FALSE
    /\ inflight = {}
    /\ m = EmptyFrame
    /\ trace = <<>>
    /\ errLogged = 0
    /\ seqSeen = <<>>
    /\ hist = EmptyHist

\* ---------------------------------------------------------------- ledger

getBalance(pubkey) == IF pubkey \in DOMAIN balances THEN balances[pubkey] ELSE 0
Credit(bal, pubkey, amount) ==
    [a \in (DOMAIN bal) \cup {pubkey} |->
        (IF a \in DOMAIN bal THEN bal[a] ELSE 0) + (IF a = pubkey THEN amount ELSE 0)]
\* connection.getMinimumBalanceForRentExemption(8), in units of 10^6 lamports.
MinimumBalanceForRentExemption == 1

\* ---------------------------------------------------------- await plumbing

Ev(ev, call, line, arg) ==
    [ev |-> ev, call |-> call, site |-> pc, line |-> line, arg |-> arg]
CallRec(call, line) == [call |-> call, site |-> pc, line |-> line]

\* main reaches `await call(...)` at `line`: the call goes out, main suspends.
Issue(call, line, arg) ==
    /\ ~waiting
    /\ waiting' = TRUE
    /\ at' = line
    /\ inflight' = inflight \cup {CallRec(call, line)}
    /\ trace' = Append(trace, Ev("call", call, line, arg))

\* the awaited call resolves: main resumes after it.
Settle(call, arg) ==
    /\ waiting
    /\ CallRec(call, at) \in inflight
    /\ inflight' = inflight \ {CallRec(call, at)}
    /\ waiting' = FALSE
    /\ trace' = Append(trace, Ev("ret", call, at, arg))

\* a synchronous step of main.
Step(call, arg) ==
    /\ ~waiting
    /\ trace' = Append(trace, Ev("step", call, at, arg))
    /\ UNCHANGED <<waiting, inflight>>

\* an exception thrown by the code itself: main's promise rejects.
Throw(call) ==
    /\ pc' = 216
    /\ at' = 216
    /\ trace' = Append(trace, Ev("throw", call, at, 0))

\* ------------------------------------------------- getOrCreateKeypair (34)

fs_existsSync(filePath) == filePath \in DOMAIN files
fs_writeFileSync(filePath, content) ==
    [f \in (DOMAIN files) \cup {filePath} |-> IF f = filePath THEN content ELSE files[f]]
KeypairGenerate == <<nextKey>>
\* The file, if a write to it now would replace an existing file.
Existing(filePath) == IF fs_existsSync(filePath) THEN {filePath} ELSE {}

\* The file's key if the file exists; otherwise a new key, written to it.
\* keypair is the value returned.
GetOrCreateKeypairMutRegenerate(filePath, keypair) ==
    /\ keypair = KeypairGenerate
    /\ nextKey' = nextKey + 1
    /\ files' = fs_writeFileSync(filePath, ArrayFrom(keypair))
    /\ hist' = [hist EXCEPT !.calls[filePath] = @ + 1,
                            !.wroteAt[filePath] = @ \cup {hist.calls[filePath] + 1},
                            !.overwrote = @ \cup Existing(filePath),
                            !.returned[filePath] = @ \cup {keypair}]
getOrCreateKeypair(filePath, keypair) ==
    IF fs_existsSync(filePath)
    THEN /\ keypair = KeypairFromSecretKey(Uint8ArrayFrom(files[filePath]))
         /\ hist' = [hist EXCEPT !.calls[filePath] = @ + 1,
                                 !.returned[filePath] = @ \cup {keypair}]
         /\ UNCHANGED <<files, nextKey>>
    ELSE /\ keypair = KeypairGenerate
         /\ nextKey' = nextKey + 1
         /\ files' = fs_writeFileSync(filePath, ArrayFrom(keypair))
         /\ hist' = [hist EXCEPT !.calls[filePath] = @ + 1,
                                 !.wroteAt[filePath] = @ \cup {hist.calls[filePath] + 1},
                                 !.overwrote = @ \cup Existing(filePath),
                                 !.returned[filePath] = @ \cup {keypair}]

\* ------------------------------------------------------------- main (105)

\* main() at line 216: a run of the script starts.
StartRun ==
    /\ pc = 0
    /\ run < MaxRuns
    /\ run' = run + 1
    /\ pc' = 107
    /\ at' = 107
    /\ m' = EmptyFrame
    /\ trace' = <<>>
    /\ errLogged' = 0
    /\ seqSeen' = <<>>
    /\ UNCHANGED <<files, balances, accounts, nextKey, waiting, inflight, hist>>

Main107 ==
    /\ pc = 107
    /\ Step("getOrCreateKeypair", 0)
    /\ \E kp \in KeySpace :
         /\ getOrCreateKeypair(USER1_FILE, kp)
         /\ m' = [m EXCEPT !.user1 = kp]
    /\ pc' = 108
    /\ at' = 108
    /\ UNCHANGED <<balances, accounts, run, errLogged, seqSeen>>

Main108 ==
    /\ pc = 108
    /\ Step("getOrCreateKeypair", 0)
    /\ \E kp \in KeySpace :
         /\ getOrCreateKeypair(USER2_FILE, kp)
         /\ m' = [m EXCEPT !.user2 = kp]
    /\ pc' = 109
    /\ at' = 109
    /\ UNCHANGED <<balances, accounts, run, errLogged, seqSeen>>

\* ---------------------------------------------------- airdropIfNeeded (47)

\* The pubkey argument of the call at line 109 or 110.
AirdropPubkey == publicKey(IF pc = 109 THEN m.user1 ELSE m.user2)
\* The statement after the call.
AfterAirdrop == IF pc = 109 THEN 110 ELSE 112

NeedsAirdropMutInclusive(balance) == balance <= 2 * LAMPORTS_PER_SOL
NeedsAirdrop(balance) == balance < 2 * LAMPORTS_PER_SOL
AirdropAmount == 2 * LAMPORTS_PER_SOL

Airdrop48Call ==
    /\ pc \in {109, 110}
    /\ at = pc
    /\ Issue("getBalance", 48, 0)
    /\ UNCHANGED <<files, balances, accounts, nextKey, run, pc, m, errLogged, seqSeen, hist>>

Airdrop48Ret ==
    /\ pc \in {109, 110}
    /\ at = 48
    /\ Settle("getBalance", getBalance(AirdropPubkey))
    /\ m' = [m EXCEPT !.balance = getBalance(AirdropPubkey)]
    /\ UNCHANGED <<files, balances, accounts, nextKey, run, pc, errLogged, seqSeen, hist>>
    /\ at' = 49

\* if (balance < 2 * LAMPORTS_PER_SOL): request, or return to main.
Airdrop49 ==
    /\ pc \in {109, 110}
    /\ at = 49
    /\ ~waiting
    /\ IF NeedsAirdrop(m.balance)
       THEN /\ at' = 51
            /\ UNCHANGED <<pc, trace>>
       ELSE /\ pc' = AfterAirdrop
            /\ at' = AfterAirdrop
            /\ trace' = Append(trace, Ev("return", "airdropIfNeeded", 54, getBalance(AirdropPubkey)))
    /\ UNCHANGED <<files, balances, accounts, nextKey, run, waiting, inflight, m,
                   errLogged, seqSeen, hist>>

Airdrop51Call ==
    /\ pc \in {109, 110}
    /\ at = 51
    /\ Issue("requestAirdrop", 51, AirdropAmount)
    /\ UNCHANGED <<files, balances, accounts, nextKey, run, pc, m, errLogged, seqSeen, hist>>

Airdrop51Ret ==
    /\ pc \in {109, 110}
    /\ at = 51
    /\ Settle("requestAirdrop", 0)
    /\ at' = 52
    /\ UNCHANGED <<files, balances, accounts, nextKey, run, pc, m, errLogged, seqSeen, hist>>

Airdrop52Call ==
    /\ pc \in {109, 110}
    /\ at = 52
    /\ Issue("confirmTransaction", 52, 0)
    /\ UNCHANGED <<files, balances, accounts, nextKey, run, pc, m, errLogged, seqSeen, hist>>

\* The airdrop is confirmed: the ledger has credited it; return to main.
Airdrop52Ret ==
    /\ pc \in {109, 110}
    /\ at = 52
    /\ waiting
    /\ CallRec("confirmTransaction", 52) \in inflight
    /\ inflight' = inflight \ {CallRec("confirmTransaction", 52)}
    /\ waiting' = FALSE
    /\ balances' = Credit(balances, AirdropPubkey, AirdropAmount)
    /\ trace' = trace \o <<Ev("ret", "confirmTransaction", 52, 0),
                           Ev("return", "airdropIfNeeded", 54,
                              getBalance(AirdropPubkey) + AirdropAmount)>>
    /\ pc' = AfterAirdrop
    /\ at' = AfterAirdrop
    /\ UNCHANGED <<files, accounts, nextKey, run, m, errLogged, seqSeen, hist>>

\* -------------------------------------- getOrCreateLoggerStateAccount (76)

\* if (fs.existsSync(LOGGER_STATE_FILE)): load and return, or go on to create.
Logger77 ==
    /\ pc = 112
    /\ at = 112
    /\ ~waiting
    /\ IF fs_existsSync(LOGGER_STATE_FILE)
       THEN LET kp == KeypairFromSecretKey(Uint8ArrayFrom(files[LOGGER_STATE_FILE]))
            IN  /\ m' = [m EXCEPT !.loggerStateKP = kp]
                /\ hist' = [hist EXCEPT !.calls[LOGGER_STATE_FILE] = @ + 1,
                                        !.returned[LOGGER_STATE_FILE] = @ \cup {kp}]
                /\ pc' = 115
                /\ at' = 115
       ELSE /\ hist' = [hist EXCEPT !.calls[LOGGER_STATE_FILE] = @ + 1]
            /\ at' = 83
            /\ UNCHANGED <<pc, m>>
    /\ trace' = Append(trace, Ev("step", "getOrCreateLoggerStateAccount", 77, 0))
    /\ UNCHANGED <<files, balances, accounts, nextKey, run, waiting, inflight,
                   errLogged, seqSeen>>

\* const kp = Keypair.generate();
Logger83MutWriteFirst ==
    /\ pc = 112
    /\ at = 83
    /\ ~waiting
    /\ m' = [m EXCEPT !.kp = KeypairGenerate]
    /\ nextKey' = nextKey + 1
    /\ files' = fs_writeFileSync(LOGGER_STATE_FILE, ArrayFrom(KeypairGenerate))
    /\ hist' = [hist EXCEPT !.wroteAt[LOGGER_STATE_FILE] = @ \cup {hist.calls[LOGGER_STATE_FILE]},
                            !.overwrote = @ \cup Existing(LOGGER_STATE_FILE)]
    /\ at' = 85
    /\ UNCHANGED <<balances, accounts, run, pc, waiting, inflight, trace,
                   errLogged, seqSeen>>
Logger83 ==
    /\ pc = 112
    /\ at = 83
    /\ ~waiting
    /\ m' = [m EXCEPT !.kp = KeypairGenerate]
    /\ nextKey' = nextKey + 1
    /\ at' = 85
    /\ UNCHANGED <<files, balances, accounts, run, pc, waiting, inflight, trace,
                   errLogged, seqSeen, hist>>

Logger85Call ==
    /\ pc = 112
    /\ at = 85
    /\ Issue("getMinimumBalanceForRentExemption", 85, space)
    /\ UNCHANGED <<files, balances, accounts, nextKey, run, pc, m, errLogged, seqSeen, hist>>

Logger85Ret ==
    /\ pc = 112
    /\ at = 85
    /\ Settle("getMinimumBalanceForRentExemption", MinimumBalanceForRentExemption)
    /\ m' = [m EXCEPT !.lamports = MinimumBalanceForRentExemption]
    /\ at' = 94
    /\ UNCHANGED <<files, balances, accounts, nextKey, run, pc, errLogged, seqSeen, hist>>

\* SystemProgram.createAccount(...) sent with sendAndConfirmTransaction.
Logger94Call ==
    /\ pc = 112
    /\ at = 94
    /\ Issue("sendAndConfirmTransaction", 94, m.lamports)
    /\ UNCHANGED <<files, balances, accounts, nextKey, run, pc, m, errLogged, seqSeen, hist>>

\* The ledger's createAccount: a new account of `space` zero bytes owned by
\* programId, funded from fromPubkey.
createAccount(fromPubkey, newAccountPubkey, lamports, sz, programId) ==
    /\ getBalance(fromPubkey) >= lamports
    /\ newAccountPubkey \notin DOMAIN accounts
    /\ accounts' = [a \in (DOMAIN accounts) \cup {newAccountPubkey} |->
                      IF a = newAccountPubkey
                      THEN [owner |-> programId, data |-> BufferAlloc(sz)]
                      ELSE accounts[a]]
    /\ balances' = Credit(Credit(balances, fromPubkey, 0 - lamports),
                          newAccountPubkey, lamports)

\* The transaction is confirmed: the account exists.
Logger94Ret ==
    /\ pc = 112
    /\ at = 94
    /\ Settle("sendAndConfirmTransaction", 0)
    /\ createAccount(publicKey(m.user1), publicKey(m.kp), m.lamports, space,
                     LOGGER_PROGRAM_ID)
    /\ hist' = [hist EXCEPT !.created = @ \cup {publicKey(m.kp)}]
    /\ at' = 95
    /\ UNCHANGED <<files, nextKey, run, pc, m, errLogged, seqSeen>>

\* fs.writeFileSync(LOGGER_STATE_FILE, ...); return kp;
Logger95 ==
    /\ pc = 112
    /\ at = 95
    /\ Step("writeFileSync", 0)
    /\ files' = fs_writeFileSync(LOGGER_STATE_FILE, ArrayFrom(m.kp))
    /\ hist' = [hist EXCEPT !.wroteAt[LOGGER_STATE_FILE] = @ \cup {hist.calls[LOGGER_STATE_FILE]},
                            !.overwrote = @ \cup Existing(LOGGER_STATE_FILE),
                            !.returned[LOGGER_STATE_FILE] = @ \cup {m.kp}]
    /\ m' = [m EXCEPT !.loggerStateKP = m.kp]
    /\ pc' = 115
    /\ at' = 115
    /\ UNCHANGED <<balances, accounts, nextKey, run, errLogged, seqSeen>>

\* ------------------------------------------- mint and token accounts (115)

Main115Call ==
    /\ pc = 115
    /\ at = 115
    /\ Issue("createMint", 115, 0)
    /\ UNCHANGED <<files, balances, accounts, nextKey, run, pc, m, errLogged, seqSeen, hist>>

Main115Ret ==
    /\ pc = 115
    /\ Settle("createMint", 0)
    /\ \E mint \in Mints : m' = [m EXCEPT !.mint = mint]
    /\ pc' = 118
    /\ at' = 118
    /\ UNCHANGED <<files, balances, accounts, nextKey, run, errLogged, seqSeen, hist>>

\* The awaited calls of main whose result the script only stores or prints:
\* the line, the call made there, and the line main goes on to.
PlainCalls ==
    {<<118, "getOrCreateAssociatedTokenAccount", 119>>,
     <<119, "getOrCreateAssociatedTokenAccount", 121>>,
     <<121, "mintTo", 122>>, <<122, "mintTo", 123>>,
     <<123, "getAccount", 124>>, <<124, "getAccount", 127>>,
     <<168, "getTransaction", 170>>,
     <<170, "getAccount", 171>>, <<171, "getAccount", 176>>,
     <<205, "getTransaction", 207>>,
     <<207, "getAccount", 208>>, <<208, "getAccount", 209>>,
     <<209, "getAccount", 214>>}
\* printLogsForTx awaits getTransaction at its line 57.
PlainLine(line) == IF line \in {168, 205} THEN 57 ELSE line

PlainCall ==
    /\ \E c \in PlainCalls :
         /\ pc = c[1]
         /\ at = pc
         /\ Issue(c[2], PlainLine(pc), 0)
    /\ UNCHANGED <<files, balances, accounts, nextKey, run, pc, m, errLogged, seqSeen, hist>>

PlainRet ==
    /\ \E c \in PlainCalls :
         /\ pc = c[1]
         /\ at = PlainLine(pc)
         /\ Settle(c[2], 0)
         /\ pc' = c[3]
         /\ at' = c[3]
    /\ m' = IF pc = 118
            THEN [m EXCEPT !.user1TokenAcc = AssociatedTokenAccount(m.mint, publicKey(m.user1))]
            ELSE IF pc = 119
            THEN [m EXCEPT !.user2TokenAcc = AssociatedTokenAccount(m.mint, publicKey(m.user2))]
            ELSE m
    /\ UNCHANGED <<files, balances, accounts, nextKey, run, errLogged, seqSeen, hist>>

\* ------------------------------------------------ derived addresses (127)

EscrowDataPdaMutSeq(mint) ==
    findProgramAddress(
        <<SeedEscrow, toBuffer(mint)>>
          \o (IF publicKey(m.loggerStateKP) \in DOMAIN accounts
              THEN <<accounts[publicKey(m.loggerStateKP)].data>> ELSE <<>>),
        ESCROW_PROGRAM_ID)
EscrowDataPda(mint) == findProgramAddress(<<SeedEscrow, toBuffer(mint)>>, ESCROW_PROGRAM_ID)
VaultPda(mint) == findProgramAddress(<<SeedVault, toBuffer(mint)>>, ESCROW_PROGRAM_ID)

Main127 ==
    /\ pc = 127
    /\ Step("findProgramAddress", 0)
    /\ m' = [m EXCEPT !.escrowDataPda = EscrowDataPda(m.mint)]
    /\ pc' = 131
    /\ at' = 131
    /\ UNCHANGED <<files, balances, accounts, nextKey, run, errLogged, seqSeen, hist>>

Main131 ==
    /\ pc = 131
    /\ Step("findProgramAddress", 0)
    /\ m' = [m EXCEPT !.vaultPda = VaultPda(m.mint)]
    /\ hist' = [hist EXCEPT !.derived = @ + 1,
                            !.pdas = @ \cup {[mint |-> m.mint, escrow |-> m.escrowDataPda,
                                             vault |-> VaultPda(m.mint)]}]
    /\ pc' = 137
    /\ at' = 137
    /\ UNCHANGED <<files, balances, accounts, nextKey, run, errLogged, seqSeen>>

\* ---------------------------------------------- instruction data (137, 176)

\* Buffer.alloc(1 + 8); writeUInt8(disc, 0); writeBigUInt64LE(BigInt(amount), 1)
InstructionDataMutOffset(disc, amount) ==
    writeUInt8(writeBigUInt64LE(BufferAlloc(1 + 8), BigInt(BitsOfNat(amount)), 0), disc, 8)
InstructionData(disc, amount) ==
    writeBigUInt64LE(writeUInt8(BufferAlloc(1 + 8), disc, 0), BigInt(BitsOfNat(amount)), 1)

Main137 ==
    /\ pc = 137
    /\ Step("depositData", 0)
    /\ m' = [m EXCEPT !.depositData = InstructionData(0, depositAmount)]
    /\ pc' = 142
    /\ at' = 142
    /\ UNCHANGED <<files, balances, accounts, nextKey, run, errLogged, seqSeen, hist>>

Main176 ==
    /\ pc = 176
    /\ Step("withdrawData", 0)
    /\ m' = [m EXCEPT !.withdrawData = InstructionData(1, withdrawAmount)]
    /\ pc' = 181
    /\ at' = 181
    /\ UNCHANGED <<files, balances, accounts, nextKey, run, errLogged, seqSeen, hist>>

\* ---------------------------------------------------- getLoggerSequence (69)

getAccountInfo(pubkey) ==
    IF pubkey \in DOMAIN accounts
    THEN [exists |-> TRUE, data |-> accounts[pubkey].data]
    ELSE [exists |-> FALSE, data |-> <<>>]

Seq70Call ==
    /\ pc \in {142, 181}
    /\ at = pc
    /\ Issue("getAccountInfo", 70, 0)
    /\ UNCHANGED <<files, balances, accounts, nextKey, run, pc, m, errLogged, seqSeen, hist>>

Seq70Ret ==
    /\ pc \in {142, 181}
    /\ at = 70
    /\ Settle("getAccountInfo", 0)
    /\ m' = [m EXCEPT !.accountInfo = getAccountInfo(publicKey(m.loggerStateKP))]
    /\ at' = 71
    /\ UNCHANGED <<files, balances, accounts, nextKey, run, pc, errLogged, seqSeen, hist>>

\* Lines 71-73: throw on a missing or short account, else return the
\* counter as a Number to main's seqBefore (142) or withdrawSeq (181).
Seq71MutDefaultZero ==
    /\ pc \in {142, 181}
    /\ at = 71
    /\ Step("getLoggerSequence", 0)
    /\ LET sequence == IF ~m.accountInfo.exists \/ Len(m.accountInfo.data) < 8
                       THEN {}
                       ELSE Number(readBigUInt64LE(m.accountInfo.data, 0))
       IN  m' = IF pc = 142 THEN [m EXCEPT !.seqBefore = sequence]
                            ELSE [m EXCEPT !.withdrawSeq = sequence]
    /\ pc' = pc + 1
    /\ at' = pc + 1
    /\ UNCHANGED <<files, balances, accounts, nextKey, run, errLogged, seqSeen, hist>>
Seq71 ==
    /\ pc \in {142, 181}
    /\ at = 71
    /\ ~waiting
    /\ IF ~m.accountInfo.exists \/ Len(m.accountInfo.data) < 8
       THEN /\ Throw("getLoggerSequence")
            /\ UNCHANGED <<m, seqSeen>>
       ELSE /\ m' = IF pc = 142
                    THEN [m EXCEPT !.seqBefore = Number(readBigUInt64LE(m.accountInfo.data, 0))]
                    ELSE [m EXCEPT !.withdrawSeq = Number(readBigUInt64LE(m.accountInfo.data, 0))]
            /\ seqSeen' = [s \in (DOMAIN seqSeen) \cup {pc} |->
                             IF s = pc THEN readBigUInt64LE(m.accountInfo.data, 0)
                             ELSE seqSeen[s]]
            /\ trace' = Append(trace, Ev("step", "getLoggerSequence", 73, 0))
            /\ pc' = pc + 1
            /\ at' = pc + 1
    /\ UNCHANGED <<files, balances, accounts, nextKey, run, waiting, inflight,
                   errLogged, hist>>

\* -------------------------------------------------------- getMessagePda (99)

getMessagePda(loggerProg, sequence) ==
    findProgramAddress(
        <<SeedLogger, writeBigUInt64LE(BufferAlloc(8), BigInt(sequence), 0)>>, loggerProg)

\* Lines 143 and 182: getMessagePda(LOGGER_PROGRAM_ID, seq + 1); the write of
\* the sequence throws a RangeError if it does not fit 64 bits.
Main143 ==
    /\ pc \in {143, 182}
    /\ at = pc
    /\ ~waiting
    /\ LET sequence == Plus1(IF pc = 143 THEN m.seqBefore ELSE m.withdrawSeq)
       IN  IF ~InU64Range(BigInt(sequence))
           THEN /\ Throw("getMessagePda")
                /\ UNCHANGED m
           ELSE /\ m' = IF pc = 143
                        THEN [m EXCEPT !.messagePda = getMessagePda(LOGGER_PROGRAM_ID, sequence)]
                        ELSE [m EXCEPT !.withdrawMessagePda =
                                           getMessagePda(LOGGER_PROGRAM_ID, sequence)]
                /\ trace' = Append(trace, Ev("step", "getMessagePda", pc, 0))
                /\ pc' = pc + 2
                /\ at' = pc + 2
    /\ UNCHANGED <<files, balances, accounts, nextKey, run, waiting, inflight,
                   errLogged, seqSeen, hist>>

\* ------------------------------------------------------------ deposit (145)

DepositKeys ==
    <<publicKey(m.user1), m.user1TokenAcc, m.escrowDataPda, m.vaultPda,
      SystemProgramId, TOKEN_PROGRAM_ID, SYSVAR_RENT_PUBKEY,
      ProgramAddr(LOGGER_PROGRAM_ID), publicKey(m.loggerStateKP), m.messagePda,
      publicKey(m.user1), SystemProgramId, m.mint>>

Main145 ==
    /\ pc = 145
    /\ Step("depositIx", 0)
    /\ m' = [m EXCEPT !.depositIx = <<[programId |-> ESCROW_PROGRAM_ID,
                                       keys |-> DepositKeys,
                                       data |-> m.depositData]>>]
    /\ pc' = 166
    /\ at' = 166
    /\ UNCHANGED <<files, balances, accounts, nextKey, run, errLogged, seqSeen, hist>>

\* The logger program's effect on its state account when the escrow program
\* logs n messages: the counter in the first 8 bytes goes up by n.
LoggerRecords(acc, statePubkey, n) ==
    IF n = 0 \/ statePubkey \notin DOMAIN acc
             \/ readBigUInt64LE(acc[statePubkey].data, 0) = 0..(U64Bits - 1)
    THEN acc
    ELSE [acc EXCEPT ![statePubkey].data =
              writeBigUInt64LE(@, Inc(readBigUInt64LE(@, 0)), 0)]

Deposit166CallMutNoAwait ==
    /\ pc = 166
    /\ at = 166
    /\ ~waiting
    /\ inflight' = inflight \cup {CallRec("sendAndConfirmTransaction", 166)}
    /\ trace' = Append(trace, Ev("call", "sendAndConfirmTransaction", 166, 0))
    /\ pc' = 168
    /\ at' = 168
    /\ UNCHANGED <<files, balances, accounts, nextKey, run, waiting, m, errLogged,
                   seqSeen, hist>>
Deposit166Call ==
    /\ pc = 166
    /\ at = 166
    /\ Issue("sendAndConfirmTransaction", 166, 0)
    /\ UNCHANGED <<files, balances, accounts, nextKey, run, pc, m, errLogged, seqSeen, hist>>

Deposit166Ret ==
    /\ pc = 166
    /\ Settle("sendAndConfirmTransaction", 0)
    /\ \E n \in {0, 1} : accounts' = LoggerRecords(accounts, publicKey(m.loggerStateKP), n)
    /\ pc' = 168
    /\ at' = 168
    /\ UNCHANGED <<files, balances, nextKey, run, m, errLogged, seqSeen, hist>>

\* ----------------------------------------------------------- withdraw (184)

WithdrawKeys ==
    <<publicKey(m.user1), m.user2TokenAcc, m.escrowDataPda, m.vaultPda,
      TOKEN_PROGRAM_ID, ProgramAddr(LOGGER_PROGRAM_ID), publicKey(m.loggerStateKP),
      m.vaultPda, m.withdrawMessagePda, publicKey(m.user1), SystemProgramId>>

Main184 ==
    /\ pc = 184
    /\ Step("withdrawIx", 0)
    /\ m' = [m EXCEPT !.withdrawIx = <<[programId |-> ESCROW_PROGRAM_ID,
                                        keys |-> WithdrawKeys,
                                        data |-> m.withdrawData]>>]
    /\ pc' = 203
    /\ at' = 203
    /\ UNCHANGED <<files, balances, accounts, nextKey, run, errLogged, seqSeen, hist>>

Withdraw203Call ==
    /\ pc = 203
    /\ at = 203
    /\ Issue("sendAndConfirmTransaction", 203, 0)
    /\ UNCHANGED <<files, balances, accounts, nextKey, run, pc, m, errLogged, seqSeen, hist>>

Withdraw203Ret ==
    /\ pc = 203
    /\ Settle("sendAndConfirmTransaction", 0)
    /\ \E n \in {0, 1} : accounts' = LoggerRecords(accounts, publicKey(m.loggerStateKP), n)
    /\ pc' = 205
    /\ at' = 205
    /\ UNCHANGED <<files, balances, nextKey, run, m, errLogged, seqSeen, hist>>

\* main returns: its promise resolves and the process ends.
Main214 ==
    /\ pc = 214
    /\ Step("return", 0)
    /\ pc' = 0
    /\ at' = 0
    /\ UNCHANGED <<files, balances, accounts, nextKey, run, m, errLogged, seqSeen, hist>>

\* ------------------------------------------------------ failure, catch (216)

\* The awaited network call rejects: the exception leaves main.
RejectMutRetry ==
    /\ waiting
    /\ \E c \in inflight :
         /\ c.site = pc /\ c.line = at
         /\ inflight' = inflight \ {c}
         /\ trace' = Append(trace, Ev("throw", c.call, at, 0))
    /\ waiting' = FALSE
    /\ at' = IF at \in {51, 52, 85, 94} THEN at ELSE pc
    /\ UNCHANGED <<files, balances, accounts, nextKey, run, pc, m, errLogged, seqSeen, hist>>
Reject ==
    /\ waiting
    /\ \E c \in inflight :
         /\ c.site = pc /\ c.line = at
         /\ inflight' = inflight \ {c}
         /\ Throw(c.call)
    /\ waiting' = FALSE
    /\ UNCHANGED <<files, balances, accounts, nextKey, run, m, errLogged, seqSeen, hist>>

\* main().catch(err => console.error(...)): log once; the process ends.
Catch216 ==
    /\ pc = 216
    /\ errLogged' = errLogged + 1
    /\ trace' = Append(trace, Ev("step", "console.error", 216, 0))
    /\ pc' = 0
    /\ at' = 0
    /\ UNCHANGED <<files, balances, accounts, nextKey, run, waiting, inflight, m,
                   seqSeen, hist>>

Next ==
    \/ StartRun
    \/ Main107 \/ Main108
    \/ Airdrop48Call \/ Airdrop48Ret \/ Airdrop49
    \/ Airdrop51Call \/ Airdrop51Ret \/ Airdrop52Call \/ Airdrop52Ret
    \/ Logger77 \/ Logger83 \/ Logger85Call \/ Logger85Ret
    \/ Logger94Call \/ Logger94Ret \/ Logger95
    \/ Main115Call \/ Main115Ret
    \/ PlainCall \/ PlainRet
    \/ Main127 \/ Main131 \/ Main137
    \/ Seq70Call \/ Seq70Ret \/ Seq71
    \/ Main143 \/ Main145
    \/ Deposit166Call \/ Deposit166Ret
    \/ Main176 \/ Main184
    \/ Withdraw203Call \/ Withdraw203Ret
    \/ Main214
    \/ Reject
    \/ Catch216

Spec == Init /\ [][Next]_vars

\* =================================================================== claims

Events(ev, call, site) ==
    {i \in DOMAIN trace : trace[i].ev = ev /\ trace[i].call = call /\ trace[i].site = site}
Thrown == {i \in DOMAIN trace : trace[i].ev = "throw"}
FileKey(f) == KeypairFromSecretKey(Uint8ArrayFrom(files[f]))
TwoSol == 2 * LAMPORTS_PER_SOL

\* The 8-byte little-endian encoding of the exact integer n (n < 2^64).
ExactU64LE(n) == [j \in 1..8 |-> ByteAt(n, j - 1)]
\* The message address of the log entry that follows on-chain counter s.
NextMessagePda(s) ==
    findProgramAddress(<<SeedLogger, ExactU64LE(Inc(s))>>, LOGGER_PROGRAM_ID)
\* The amount held little-endian in bytes 2..9 of a 9-byte instruction buffer.
AmountOf(data) ==
    data[2] + 256 * data[3] + 65536 * data[4] + 16777216 * data[5]
\* An instruction as the source spells it out.
DepositBytes == <<0, 50, 0, 0, 0, 0, 0, 0, 0>>
WithdrawBytes == <<1, 30, 0, 0, 0, 0, 0, 0, 0>>

\* ----------------------------------------------------------------------- C1
\* C1 as stated: for every key file, all calls of getOrCreateKeypair /
\* getOrCreateLoggerStateAccount return the same keypair and the file is
\* written at most once, by the first call only.
C1_OnlyFirstCallWrites ==
    \A f \in FileNames :
        /\ Cardinality(hist.returned[f]) <= 1
        /\ hist.wroteAt[f] \subseteq {1}

\* C1 amended: every call that returns returns the same keypair; the file is
\* written at most once and never while it exists; a file that exists holds
\* the key every call returned; a wallet file is written by the first call
\* only, logger_state.json by the call whose create-account transaction was
\* confirmed (which need not be the first call).
C1_SameKeysOnRerun ==
    \A f \in FileNames :
        /\ Cardinality(hist.returned[f]) <= 1
        /\ Cardinality(hist.wroteAt[f]) <= 1
        /\ f \notin hist.overwrote
        /\ f \in DOMAIN files => hist.returned[f] \subseteq {FileKey(f)}
        /\ f # LOGGER_STATE_FILE => hist.wroteAt[f] \subseteq {1}
        /\ (f = LOGGER_STATE_FILE /\ hist.wroteAt[f] # {}) =>
               /\ f \in DOMAIN files
               /\ publicKey(FileKey(f)) \in hist.created

\* A second run loaded wallet1.json written by the first, and wrote
\* logger_state.json only in the second call, the first having failed.
C1_Witness ==
    /\ hist.calls[USER1_FILE] = 2
    /\ hist.wroteAt[USER1_FILE] = {1}
    /\ Cardinality(hist.returned[USER1_FILE]) = 1
    /\ hist.calls[LOGGER_STATE_FILE] = 2
    /\ hist.wroteAt[LOGGER_STATE_FILE] = {2}

\* ----------------------------------------------------------------------- C2
\* C2: the data of the deposit instruction is the 9 bytes 0x00 then 50 as an
\* 8-byte little-endian integer, that of the withdraw instruction 0x01 then
\* 30; in each the discriminant is byte 0 and the amount bytes 1..8, lowest
\* byte first.
C2_InstructionBytes ==
    /\ Len(m.depositIx) = 1 =>
          /\ m.depositIx[1].data = DepositBytes
          /\ Len(m.depositIx[1].data) = 1 + 8
          /\ AmountOf(m.depositIx[1].data) = depositAmount
    /\ Len(m.withdrawIx) = 1 =>
          /\ m.withdrawIx[1].data = WithdrawBytes
          /\ Len(m.withdrawIx[1].data) = 1 + 8
          /\ AmountOf(m.withdrawIx[1].data) = withdrawAmount

\* Both instructions were built and the deposit was confirmed.
C2_Witness ==
    /\ Len(m.depositIx) = 1
    /\ Len(m.withdrawIx) = 1
    /\ Events("ret", "sendAndConfirmTransaction", 166) # {}

\* ----------------------------------------------------------------------- C3
\* C3: the escrow and vault addresses are functions of the seed string, the
\* mint and the escrow program id alone: any two derivations (in the same or
\* in different runs) with the same mint give the same addresses, and the
\* deposit and the withdraw instruction of a run carry the same two.
C3_DerivedAddressesDeterministic ==
    /\ \A r1 \in hist.pdas, r2 \in hist.pdas :
          r1.mint = r2.mint => r1.escrow = r2.escrow /\ r1.vault = r2.vault
    /\ \A r \in hist.pdas :
          /\ r.escrow = findProgramAddress(<<SeedEscrow, toBuffer(r.mint)>>, ESCROW_PROGRAM_ID)
          /\ r.vault = findProgramAddress(<<SeedVault, toBuffer(r.mint)>>, ESCROW_PROGRAM_ID)
    /\ (Len(m.depositIx) = 1 /\ Len(m.withdrawIx) = 1) =>
          /\ m.depositIx[1].keys[3] = m.withdrawIx[1].keys[3]
          /\ m.depositIx[1].keys[4] = m.withdrawIx[1].keys[4]
          /\ m.withdrawIx[1].keys[8] = m.depositIx[1].keys[4]
          /\ [mint |-> m.mint, escrow |-> m.withdrawIx[1].keys[3],
              vault |-> m.withdrawIx[1].keys[4]] \in hist.pdas

\* Two runs derived addresses from the same mint, after the first run's
\* deposit had advanced the logger counter, and the second built its withdraw.
C3_Witness ==
    /\ hist.derived = 2
    /\ Cardinality(hist.pdas) = 1
    /\ Len(m.withdrawIx) = 1
    /\ 142 \in DOMAIN seqSeen
    /\ seqSeen[142] # {}

\* ----------------------------------------------------------------------- C4
\* C4: at most one network call is in flight; main is suspended exactly while
\* one is; an issued call is settled before anything else happens; the steps
\* happen in source order; the withdraw transaction is sent only after the
\* deposit transaction was confirmed.
C4_StrictlySequential ==
    /\ Cardinality(inflight) <= 1
    /\ waiting <=> inflight # {}
    /\ \A i \in DOMAIN trace :
          (trace[i].ev = "call" /\ i < Len(trace)) =>
              /\ trace[i + 1].ev \in {"ret", "throw"}
              /\ trace[i + 1].call = trace[i].call
              /\ trace[i + 1].site = trace[i].site
    /\ \A i \in DOMAIN trace :
          i < Len(trace) => trace[i].site <= trace[i + 1].site
    /\ \A j \in Events("call", "sendAndConfirmTransaction", 203) :
          \E i \in Events("ret", "sendAndConfirmTransaction", 166) : i < j

\* A run went through every step and returned.
C4_Witness ==
    /\ pc = 0
    /\ Events("step", "return", 214) # {}
    /\ Events("ret", "confirmTransaction", 109) # {}
    /\ Events("ret", "sendAndConfirmTransaction", 112) # {}

\* ----------------------------------------------------------------------- C5
\* C5: a run has at most one failure; after it nothing of main runs, only the
\* catch handler, which logs once, and the run ends; no call is issued twice
\* at the same place; after a failed deposit no withdraw is sent.
C5_FailStop ==
    /\ Cardinality(Thrown) <= 1
    /\ \A i \in Thrown : \A j \in DOMAIN trace :
          j > i => trace[j].call = "console.error"
    /\ errLogged <= 1
    /\ errLogged = 1 => Thrown # {} /\ pc = 0
    /\ Thrown # {} => /\ pc \in {216, 0}
                      /\ inflight = {}
                      /\ ~waiting
                      /\ pc = 0 => errLogged = 1
    /\ LET calls == {i \in DOMAIN trace : trace[i].ev = "call"}
       IN  Cardinality({<<trace[i].call, trace[i].site, trace[i].line>> : i \in calls})
               = Cardinality(calls)
    /\ Events("throw", "sendAndConfirmTransaction", 166) # {} =>
          Events("call", "sendAndConfirmTransaction", 203) = {}

\* The deposit failed, the handler logged it and the run ended.
C5_Witness ==
    /\ pc = 0
    /\ errLogged = 1
    /\ Events("throw", "sendAndConfirmTransaction", 166) # {}

\* ----------------------------------------------------------------------- C6
\* C6: airdropIfNeeded requests an airdrop iff the balance it read is below
\* 2 SOL, then exactly once and for exactly 2 SOL, and returns only after the
\* confirmation; when it has returned the wallet holds at least 2 SOL.
C6_AirdropThreshold ==
    \A s \in {109, 110} :
        LET bal  == Events("ret", "getBalance", s)
            req  == Events("call", "requestAirdrop", s)
            conf == Events("ret", "confirmTransaction", s)
            done == Events("return", "airdropIfNeeded", s)
        IN  /\ Cardinality(req) <= 1
            /\ \A i \in req :
                  /\ trace[i].arg = TwoSol
                  /\ \E b \in bal : b < i /\ trace[b].arg < TwoSol
            /\ \A d \in done :
                  /\ trace[d].arg >= TwoSol
                  /\ \A b \in bal : (trace[b].arg < TwoSol) <=> (req # {})
                  /\ req # {} => \E c \in conf : c < d
            /\ Len(trace) \in done =>
                  getBalance(publicKey(IF s = 109 THEN m.user1 ELSE m.user2)) >= TwoSol

\* User1 was below 2 SOL and got an airdrop; user2 held exactly 2 SOL and
\* returned without one.
C6_Witness ==
    /\ Events("call", "requestAirdrop", 109) # {}
    /\ Events("return", "airdropIfNeeded", 109) # {}
    /\ Events("return", "airdropIfNeeded", 110) # {}
    /\ Events("call", "requestAirdrop", 110) = {}
    /\ \E b \in Events("ret", "getBalance", 110) : trace[b].arg = TwoSol

\* ----------------------------------------------------------------------- C7
\* C7: the message account of the withdraw instruction is the address of the
\* log entry after the counter found by the second read, and whenever the
\* deposit advanced the on-chain counter it differs from the deposit's.
C7_WithdrawUsesAdvancedSequence ==
    (Len(m.depositIx) = 1 /\ Len(m.withdrawIx) = 1) =>
        /\ m.withdrawIx[1].keys[9] = NextMessagePda(seqSeen[181])
        /\ seqSeen[181] # seqSeen[142] =>
               m.withdrawIx[1].keys[9] # m.depositIx[1].keys[10]

\* ----------------------------------------------------------------------- C8
\* C8: for every 64-bit counter s the seed of the message address is the
\* 8-byte little-endian encoding of s + 1, and deriving it never fails.
C8_SequenceSeedExact ==
    /\ Events("throw", "getMessagePda", 143) = {}
    /\ Events("throw", "getMessagePda", 182) = {}
    /\ (pc = 145 /\ 142 \in DOMAIN seqSeen) =>
          m.messagePda.a = <<SeedLogger, ExactU64LE(Inc(seqSeen[142]))>>

\* ----------------------------------------------------------------------- C9
\* C9: whenever the script has written logger_state.json, the account of the
\* key in it was created by a confirmed transaction and exists with 8 bytes
\* owned by the logger program; a run whose creation failed leaves no file,
\* and a key sent for creation is one never created before.
C9_FileOnlyAfterConfirmedCreate ==
    /\ hist.wroteAt[LOGGER_STATE_FILE] # {} =>
          /\ LOGGER_STATE_FILE \in DOMAIN files
          /\ publicKey(FileKey(LOGGER_STATE_FILE)) \in hist.created
          /\ publicKey(FileKey(LOGGER_STATE_FILE)) \in DOMAIN accounts
          /\ accounts[publicKey(FileKey(LOGGER_STATE_FILE))].owner = LOGGER_PROGRAM_ID
          /\ Len(accounts[publicKey(FileKey(LOGGER_STATE_FILE))].data) = space
    /\ (\E i \in Thrown : trace[i].site = 112) =>
          /\ LOGGER_STATE_FILE \notin DOMAIN files
          /\ hist.wroteAt[LOGGER_STATE_FILE] = {}
    /\ CallRec("sendAndConfirmTransaction", 94) \in inflight =>
          publicKey(m.kp) \notin hist.created

\* The first run's creation failed and left no file; the second run made a
\* new key, had its account confirmed and has just written the file.
C9_Witness ==
    /\ run = 2
    /\ pc = 115
    /\ hist.calls[LOGGER_STATE_FILE] = 2
    /\ hist.wroteAt[LOGGER_STATE_FILE] = {2}
    /\ Events("ret", "sendAndConfirmTransaction", 112) # {}
    /\ FileKey(LOGGER_STATE_FILE) = m.loggerStateKP

\* ---------------------------------------------------------------------- C10
\* C10: in a run whose loaded logger-state key names no account, or one of
\* fewer than 8 bytes, main never gets past the sequence read: the read
\* throws, no escrow instruction is built or sent, no account is created,
\* and logger_state.json still holds the loaded key, unwritten.
C10_MissingLoggerStateStops ==
    LET pk      == publicKey(m.loggerStateKP)
        invalid == pk \notin DOMAIN accounts \/ Len(accounts[pk].data) < 8
    IN  (m.loggerStateKP # NoKey /\ invalid) =>
            /\ pc \in {0, 216} \/ pc <= 142
            /\ Len(m.depositIx) = 0
            /\ Len(m.withdrawIx) = 0
            /\ {i \in DOMAIN trace : trace[i].call = "sendAndConfirmTransaction"} = {}
            /\ Events("step", "getLoggerSequence", 142) = {}
            /\ (Events("ret", "getAccountInfo", 142) # {} /\ at # 71) =>
                  Events("throw", "getLoggerSequence", 142) # {}
            /\ hist.wroteAt[LOGGER_STATE_FILE] = {}
            /\ LOGGER_STATE_FILE \in DOMAIN files
            /\ FileKey(LOGGER_STATE_FILE) = m.loggerStateKP

\* The account of the loaded key was missing: the read threw, the handler
\* logged it and the run ended before the deposit.
C10_Witness ==
    /\ pc = 0
    /\ errLogged = 1
    /\ ~m.accountInfo.exists
    /\ Events("throw", "getLoggerSequence", 142) # {}
    /\ Events("call", "sendAndConfirmTransaction", 166) = {}

====
